---- MODULE Spec2Model ----
(***************************************************************************)
(* Model of olive/drivers/asi/tiger.py: the ASI Tiger serial controller    *)
(* driver (ASISerialCommandController, Tiger, ASIAxis).                    *)
(*                                                                         *)
(* Byte strings and text are sequences of one-character strings.  Tasks    *)
(* are trio tasks: a task runs without interruption until it reaches an    *)
(* await that suspends it (a checkpoint); the worker threads started by    *)
(* trio.to_thread.run_sync run in parallel with the tasks.                 *)
(***************************************************************************)
EXTENDS Integers, Sequences, FiniteSets, TLC

(***************************************************************************)
(* Bounds of the model.                                                    *)
(***************************************************************************)
MaxWire == 4        \* link accesses recorded in one behaviour
MaxRespLen == 4     \* bytes before the CRLF of an arbitrary response
MaxErrno == 25      \* errno values range over -MaxErrno..MaxErrno
MaxArgs == 2        \* positional tokens of an arbitrary command
MaxKw == 2          \* named tokens of an arbitrary command
MaxLines == 2       \* lines of an arbitrary card listing
MaxPos == 12        \* positions range over -MaxPos..MaxPos
MaxLifeWire == 8    \* link accesses recorded while the controller is opened and closed
MaxEnumWire == 10   \* link accesses recorded in one enumerate_axes call
MaxMotionWire == 6  \* link accesses recorded in one motion operation

(***************************************************************************)
(* Characters and text helpers (Python str / bytes methods).               *)
(***************************************************************************)
CR == "\r"
LF == "\n"
SP == " "
TAB == "\t"
NonAscii == "0x80"   \* one byte outside the ASCII range

Digits == <<"0", "1", "2", "3", "4", "5", "6", "7", "8", "9">>

IsDigit(c) == \E i \in 1..10 : Digits[i] = c

DigitVal(c) == (CHOOSE i \in 1..10 : Digits[i] = c) - 1

\* str.isspace for the characters of the model
IsSpace(c) == c \in {SP, LF, CR, TAB}

\* s[n:] of Python, n >= 0
Drop(s, n) == SubSeq(s, n + 1, Len(s))

\* s.startswith(p)
StartsWith(s, p) == Len(s) >= Len(p) /\ SubSeq(s, 1, Len(p)) = p

\* bytes.replace(b"\r", b"\n")
ReplaceCR(s) == [i \in 1..Len(s) |-> IF s[i] = CR THEN LF ELSE s[i]]

\* bytes.decode("ascii") succeeds
IsAscii(s) == \A i \in 1..Len(s) : s[i] # NonAscii

RECURSIVE RStrip(_)
\* str.rstrip()
RStrip(s) ==
    IF s # <<>> /\ IsSpace(s[Len(s)]) THEN RStrip(SubSeq(s, 1, Len(s) - 1)) ELSE s

RECURSIVE LStrip(_)
\* str.lstrip()
LStrip(s) == IF s # <<>> /\ IsSpace(s[1]) THEN LStrip(Tail(s)) ELSE s

\* str.strip()
Strip(s) == LStrip(RStrip(s))

RECURSIVE Split(_, _)
\* str.split(sep) for a one-character separator: every occurrence splits,
\* so adjacent separators produce empty fields
Split(s, sep) ==
    IF \E i \in 1..Len(s) : s[i] = sep
    THEN LET i == CHOOSE j \in 1..Len(s) :
                      s[j] = sep /\ \A k \in 1..(j - 1) : s[k] # sep
         IN  <<SubSeq(s, 1, i - 1)>> \o Split(Drop(s, i), sep)
    ELSE <<s>>

\* str.split(sep, maxsplit=1)
Split1(s, sep) ==
    IF \E i \in 1..Len(s) : s[i] = sep
    THEN LET i == CHOOSE j \in 1..Len(s) :
                      s[j] = sep /\ \A k \in 1..(j - 1) : s[k] # sep
         IN  <<SubSeq(s, 1, i - 1), Drop(s, i)>>
    ELSE <<s>>

RECURSIVE Join(_, _)
\* sep.join(parts)
Join(parts, sep) ==
    IF parts = <<>> THEN <<>>
    ELSE IF Len(parts) = 1 THEN parts[1]
    ELSE parts[1] \o sep \o Join(Tail(parts), sep)

RECURSIVE NatToStr(_)
NatToStr(n) ==
    IF n < 10 THEN <<Digits[n + 1]>>
    ELSE NatToStr(n \div 10) \o <<Digits[(n % 10) + 1]>>

\* str(n) / f"{n}" of an int
IntToStr(n) == IF n < 0 THEN <<"-">> \o NatToStr(0 - n) ELSE NatToStr(n)

RECURSIVE DigitsVal(_)
DigitsVal(s) ==
    IF s = <<>> THEN 0
    ELSE 10 * DigitsVal(SubSeq(s, 1, Len(s) - 1)) + DigitVal(s[Len(s)])

\* int(s): surrounding whitespace is ignored, one optional sign, then one
\* or more decimal digits; anything else is a ValueError (ok = FALSE)
ParseInt(s) ==
    LET t == Strip(s)
        signed == t # <<>> /\ t[1] \in {"+", "-"}
        d == IF signed THEN Tail(t) ELSE t
        good == d # <<>> /\ \A i \in 1..Len(d) : IsDigit(d[i])
    IN  IF good
        THEN [ok |-> TRUE,
              val |-> IF signed /\ t[1] = "-" THEN 0 - DigitsVal(d) ELSE DigitsVal(d)]
        ELSE [ok |-> FALSE, val |-> 0]

\* Serial.read_until(b"\r\n"): the bytes of the input buffer up to and
\* including the first CRLF
ReadUntil(buf) ==
    IF \E i \in 1..(Len(buf) - 1) : buf[i] = CR /\ buf[i + 1] = LF
    THEN LET i == CHOOSE j \in 1..(Len(buf) - 1) :
                      /\ buf[j] = CR /\ buf[j + 1] = LF
                      /\ \A k \in 1..(j - 1) : ~(buf[k] = CR /\ buf[k + 1] = LF)
         IN  SubSeq(buf, 1, i + 1)
    ELSE buf

(***************************************************************************)
(* Outcomes of a call: a returned value or a raised exception.             *)
(***************************************************************************)
Return(v) == [kind |-> "return", val |-> v, klass |-> "", msg |-> <<>>]

Raise(k, m) == [kind |-> "raise", val |-> <<>>, klass |-> k, msg |-> m]

(***************************************************************************)
(* Python values passed to send_cmd: text or an integer.                   *)
(***************************************************************************)
StrV(s) == [t |-> "str", s |-> s, n |-> 0]

IntV(n) == [t |-> "int", s |-> <<>>, n |-> n]

\* str(v) / f"{v}"
Str(v) == IF v.t = "int" THEN IntToStr(v.n) ELSE v.s

(***************************************************************************)
(* Command codec.                                                          *)
(***************************************************************************)
\* FormatCmd with the named tokens put before the positional ones
FormatCmdNamedFirst(args, kwargs) ==
    LET a == [i \in 1..Len(args) |-> Str(args[i])]
        k == [i \in 1..Len(kwargs) |-> kwargs[i][1] \o <<"=">> \o Str(kwargs[i][2])]
    IN  Join(k \o a, <<SP>>) \o <<CR>>

\* send_cmd, steps 1-3: the bytes of a command.  args is the sequence of
\* positional values, kwargs the sequence of <<key, value>> pairs in the
\* order of the mapping.
FormatCmd(args, kwargs) ==
    LET a == [i \in 1..Len(args) |-> Str(args[i])]
        k == [i \in 1..Len(kwargs) |-> kwargs[i][1] \o <<"=">> \o Str(kwargs[i][2])]
    IN  Join(a \o k, <<SP>>) \o <<CR>>

ErrnoText == <<"e", "r", "r", "n", "o", "=">>

OperationFailed == <<"o", "p", "e", "r", "a", "t", "i", "o", "n", SP, "f", "a", "i", "l", "e", "d">>

UndefinedError == <<"u", "n", "d", "e", "f", "i", "n", "e", "d", SP, "e", "r", "r", "o", "r">>

\* interpret_error with the entry of errno 21 left out of the table
interpret_errorNoHalt(errno) ==
    CASE errno = 1 -> Raise("UnknownCommandError", <<>>)
      [] errno = 2 -> Raise("UnrecognizedAxisError", <<>>)
      [] errno = 3 -> Raise("MissingParameterError", <<>>)
      [] errno = 4 -> Raise("OutOfRangeError", <<>>)
      [] errno = 5 -> Raise("RuntimeError", OperationFailed)
      [] errno = 6 -> Raise("RuntimeError", UndefinedError)
      [] errno = 7 -> Raise("InvalidCardAddressError", <<>>)
      [] OTHER -> Raise("UnknownError", ErrnoText \o IntToStr(errno))

\* interpret_error: always raises
interpret_error(errno) ==
    CASE errno = 1 -> Raise("UnknownCommandError", <<>>)
      [] errno = 2 -> Raise("UnrecognizedAxisError", <<>>)
      [] errno = 3 -> Raise("MissingParameterError", <<>>)
      [] errno = 4 -> Raise("OutOfRangeError", <<>>)
      [] errno = 5 -> Raise("RuntimeError", OperationFailed)
      [] errno = 6 -> Raise("RuntimeError", UndefinedError)
      [] errno = 7 -> Raise("InvalidCardAddressError", <<>>)
      [] errno = 21 -> Raise("HaltError", <<>>)
      [] OTHER -> Raise("UnknownError", ErrnoText \o IntToStr(errno))

\* _check_error applied to the bytes buf waiting on the link
\* (the read itself is recorded by the action that calls it)
_check_error(buf) ==
    LET raw == ReplaceCR(ReadUntil(buf))
        response == RStrip(raw)
    IN  IF ~IsAscii(raw) THEN Raise("UnicodeDecodeError", <<>>)
        ELSE IF StartsWith(response, <<":", "N">>)
        THEN LET errno == ParseInt(Drop(response, 3))
             IN  IF errno.ok THEN interpret_error(errno.val)
                 ELSE Raise("ValueError", <<>>)
        ELSE IF StartsWith(response, <<":", "A">>)
        THEN Return(Drop(response, 3))
        ELSE Return(response)

(***************************************************************************)
(* Card listing (Tiger._get_cards).                                        *)
(***************************************************************************)
\* the body of the for loop for one line: the card, or ok = FALSE where a
\* statement of the body raises ValueError
ParseCardLine(line) ==
    LET parts == Split1(line, ":")
        bad == [ok |-> FALSE, address |-> 0, character |-> <<>>,
                version |-> <<>>, function |-> <<>>]
    IN  IF Len(parts) # 2 THEN bad
        ELSE LET address == ParseInt(Drop(parts[1], 3))
                 fields == Split(Strip(parts[2]), SP)
             IN  IF ~address.ok \/ Len(fields) < 3 THEN bad
                 ELSE [ok |-> TRUE, address |-> address.val, character |-> fields[3],
                       version |-> fields[2], function |-> fields[1]]

\* the cards of the response text, or the ValueError of the first line that
\* cannot be parsed
ParseCards(response) ==
    LET lines == Split(response, LF)
        cards == [i \in 1..Len(lines) |-> ParseCardLine(lines[i])]
    IN  IF \A i \in 1..Len(lines) : cards[i].ok
        THEN Return([i \in 1..Len(lines) |->
                        [address |-> cards[i].address, character |-> cards[i].character,
                         version |-> cards[i].version, function |-> cards[i].function]])
        ELSE Raise("ValueError", <<>>)

(***************************************************************************)
(* Optional values.                                                        *)
(***************************************************************************)
None == <<>>

Some(x) == <<x>>

ASI == <<"A", "S", "I">>

DeviceInfo(vendor, model, version) ==
    [vendor |-> vendor, model |-> model, version |-> version]

(***************************************************************************)
(* The controller firmware on the other end of the link.                   *)
(***************************************************************************)
TIGER_COMM == <<"T", "I", "G", "E", "R", "_", "C", "O", "M", "M">>

RespTiger == <<":", "A", SP, "T", "I", "G", "E", "R", "_", "C", "O", "M", "M", CR, LF>>

RespOther == <<":", "A", SP, "M", "S", "2", "0", "0", "0", CR, LF>>

RespVersion == <<":", "A", SP, "3", ".", "4", "0", CR, LF>>

RespAck == <<":", "A", SP, CR, LF>>

RespOne == <<":", "A", SP, "1", CR, LF>>

RespZero == <<":", "A", SP, "0", CR, LF>>

RespErr1 == <<":", "N", SP, "1", CR, LF>>

RespErr2 == <<":", "N", SP, "2", CR, LF>>

RespErr4 == <<":", "N", SP, "4", CR, LF>>

RespBusy == <<"B", CR, LF>>

RespIdle == <<"N", CR, LF>>

\* the separators the firmware may put between the fields of a listing line
FieldSeps == {<<SP>>, <<SP, SP>>, <<TAB>>}

\* the function strings of a card hosting two motors and of the comm card
ListingFunctions == {<<"X", ":", "M", ",", "Y", ":", "M">>, <<"C", "o", "m", "m">>}

\* what follows the function on a line: version, character, options
ListingFields == << <<"v", "3">>, <<"S", "T", "D", "_", "Z", "F">>, <<"o", "p", "t">> >>

\* one line of the card listing as the firmware holds it: the card address,
\* whether the colon after the address is there, the function string, the
\* number of fields (the function included) and their separator
ListingLines ==
    [address : {1, 31}, colon : BOOLEAN, function : ListingFunctions,
     nfields : 2..4, sep : FieldSeps]

GoodLine(l) == l.colon /\ l.nfields >= 3

\* the fields of a line; a line that names no character has the default one
LineFields(l) ==
    LET character == IF "character" \in DOMAIN l THEN l.character ELSE ListingFields[2]
    IN  <<l.function>>
           \o SubSeq(<<ListingFields[1], character, ListingFields[3]>>, 1, l.nfields - 1)

RenderLine(l) ==
    <<"A", "t", SP>> \o IntToStr(l.address)
       \o (IF l.colon THEN <<":", SP>> ELSE <<SP>>)
       \o Join(LineFields(l), l.sep)

\* the response block: lines separated by CR, terminated once by CRLF
RenderListing(ls) ==
    Join([i \in 1..Len(ls) |-> RenderLine(ls[i])], <<CR>>) \o <<CR, LF>>

DefaultListing ==
    << [address |-> 31, colon |-> TRUE, function |-> <<"X", ":", "M", ",", "Y", ":", "M">>,
        nfields |-> 3, sep |-> <<SP>>],
       [address |-> 1, colon |-> TRUE, function |-> <<"C", "o", "m", "m">>,
        nfields |-> 4, sep |-> <<SP>>] >>

\* what the firmware may answer to the bytes of a request, given the card
\* listing it holds
DeviceReplies(request, ls) ==
    CASE request = <<"/", CR>> -> {RespBusy, RespIdle}
      [] request = <<"B", "U", CR>> -> {RespTiger, RespOther, RespErr1}
      [] request = <<"V", CR>> -> {RespVersion, RespErr1}
      [] request = <<"N", CR>> -> {RenderListing(ls)}
      [] StartsWith(request, <<"M", "C", SP>>) -> {RespOne, RespZero, RespErr2}
      [] OTHER -> {RespAck, RespErr4}

(***************************************************************************)
(* State.                                                                  *)
(***************************************************************************)
Axes == {"X", "Y"}          \* the axis objects; each is driven by its own task

Controller == "ctl"         \* the task driving the controller object

Tasks == {Controller} \cup Axes

Positions == {5, -2}

Velocities == {1}

VARIABLES
    handleOpen,   \* Serial.is_open of ASISerialCommandController._handle
    info,         \* ASISerialCommandController._info
    lock,         \* owner of ASISerialCommandController._lock, None when free
    axinfo,       \* ASIAxis._info of each axis
    wire,         \* the accesses to the serial link, in order
    listing,      \* the card listing the firmware holds
    running,      \* the task that has the trio scheduler, "none" between tasks
    pc,           \* where each task is
    frame,        \* the locals of the call each task is in
    ret,          \* the outcome of the last call each task finished
    table,        \* the value of the last _get_cards call, None if it raised
    found,        \* the value of the last enumerate_axes call, None if it raised
    limit         \* how many link accesses are recorded in wire; 0: wire holds
                  \* the accesses of the latest request only and the link is
                  \* used without end

vars == <<handleOpen, info, lock, axinfo, wire, listing, running, pc, frame, ret, table,
          found, limit>>

\* Checkpoint as it would be if send_cmd and is_busy suspended the task
\* between their write and their read
CheckpointInsideCycle ==
    {"idle", "opening", "opened", "closing", "sleeping", "test_resume", "sent", "polled"}

\* the places where a task is suspended in an await and other tasks run:
\* between calls, in trio.to_thread.run_sync (_open, _close), in trio.sleep (wait)
Checkpoint == {"idle", "opening", "opened", "closing", "sleeping", "test_resume"}

Runnable(t) == IF pc[t] \in Checkpoint THEN running = "none" ELSE running = t

\* the task goes on at label l
Goto(t, l) ==
    /\ pc' = [pc EXCEPT ![t] = l]
    /\ running' = IF l \in Checkpoint THEN "none" ELSE t

\* the locals of a call; caller is the method of Tiger the call was made
\* from ("" for a call of the application), result the outcome of the call
\* it made last, cands and valid the lists axes and valid_axes of
\* enumerate_axes
NoFrame == [op |-> "", blocking |-> FALSE, req |-> 0, args |-> <<>>, kwargs |-> <<>>,
            model |-> <<>>, caller |-> "", result |-> Return(<<>>),
            cands |-> <<>>, valid |-> <<>>]

\* where a method of Tiger goes on when the call it made is over
Continuation == [test_open |-> "test_check", enumerate_axes |-> "enum_resume"]

\* the method task t is in ends with outcome o
FinishCall(t, o) ==
    /\ Goto(t, "idle")
    /\ ret' = [ret EXCEPT ![t] = o]
    /\ frame' = [frame EXCEPT ![t] = NoFrame]

\* the call of task t ends with outcome o: the method is over, or control
\* is back in the method of Tiger that made the call
Finish(t, o) ==
    IF frame[t].caller = ""
    THEN FinishCall(t, o)
    ELSE /\ Goto(t, Continuation[frame[t].caller])
         /\ frame' = [frame EXCEPT ![t].result = o]
         /\ UNCHANGED ret

Init ==
    /\ handleOpen = FALSE
    /\ info = None
    /\ lock = None
    /\ axinfo = [a \in Axes |-> None]
    /\ wire = <<>>
    /\ listing = DefaultListing
    /\ running = "none"
    /\ pc = [t \in Tasks |-> "idle"]
    /\ frame = [t \in Tasks |-> NoFrame]
    /\ ret = [t \in Tasks |-> Return(<<>>)]
    /\ table = None
    /\ found = None
    /\ limit = MaxWire

(***************************************************************************)
(* The serial link.                                                        *)
(***************************************************************************)
\* there is room in wire for one more request and its response
Budget == limit = 0 \/ Len(wire) + 2 <= limit

\* the place in wire of the next request
NextAccess == IF limit = 0 THEN 1 ELSE Len(wire) + 1

\* Serial.write: one write access by task t
HandleWrite(t, bytes) ==
    wire' = SubSeq(wire, 1, NextAccess - 1)
               \o <<[who |-> t, kind |-> "write", data |-> bytes, req |-> NextAccess]>>

\* Serial.read_until: one read access by task t, answering the request that
\* t wrote as access number frame[t].req
HandleRead(t, bytes) ==
    wire' = Append(wire, [who |-> t, kind |-> "read", data |-> ReadUntil(bytes),
                          req |-> frame[t].req])

\* the request task t is waiting the answer of
LastRequest(t) ==
    IF frame[t].req \in 1..Len(wire) THEN wire[frame[t].req].data ELSE <<>>

PortNotOpen == Raise("PortNotOpenError", <<>>)

UnsupportedDevice == Raise("UnsupportedDeviceError", <<>>)

(***************************************************************************)
(* ASISerialCommandController.send_cmd, in two steps: the write, then the  *)
(* read of _check_error.  The caller's action says what happens to the     *)
(* variables send_cmd does not touch.                                      *)
(***************************************************************************)
\* lines 201-211: format and write; Serial.write raises on a closed port
SendCmd(t, op, blocking, args, kwargs) ==
    /\ Runnable(t)
    /\ Budget
    /\ IF handleOpen
       THEN /\ HandleWrite(t, FormatCmd(args, kwargs))
            /\ Goto(t, "sent")
            /\ frame' = [frame EXCEPT ![t].op = op, ![t].blocking = blocking,
                                      ![t].req = NextAccess,
                                      ![t].args = args, ![t].kwargs = kwargs]
            /\ UNCHANGED ret
       ELSE /\ Finish(t, PortNotOpen)
            /\ UNCHANGED wire

\* lines 212-224: the read and the outcome of _check_error for the bytes r
\* the firmware answers; Serial.read_until raises on a closed port
Received(t, ops, r) ==
    /\ pc[t] = "sent"
    /\ frame[t].op \in ops
    /\ Runnable(t)
    /\ IF handleOpen THEN HandleRead(t, r) ELSE UNCHANGED wire

Outcome(r) == IF handleOpen THEN _check_error(r) ELSE PortNotOpen

\* lines 191-193: the is_opened property of the controller
is_opened == handleOpen

(***************************************************************************)
(* ASISerialCommandController._open and _close.                            *)
(***************************************************************************)
\* line 156: the task hands handle.open to a worker thread and is suspended
Open(t) ==
    /\ pc[t] = "idle"
    /\ Runnable(t)
    /\ Goto(t, "opening")
    /\ frame' = [frame EXCEPT ![t] = [NoFrame EXCEPT !.op = "open"]]
    /\ UNCHANGED <<handleOpen, info, lock, axinfo, wire, listing, found, limit, ret, table>>

\* the worker thread runs Serial.open: it raises when the port is already
\* open or cannot be opened, and the exception ends _open
OpenThread(t) ==
    /\ pc[t] = "opening"
    /\ \/ /\ ~handleOpen
          /\ handleOpen' = TRUE
          /\ pc' = [pc EXCEPT ![t] = "opened"]
          /\ UNCHANGED <<ret, frame>>
       \/ /\ handleOpen' = handleOpen
          /\ IF frame[t].caller = ""
             THEN /\ pc' = [pc EXCEPT ![t] = "idle"]
                  /\ ret' = [ret EXCEPT ![t] = Raise("SerialException", <<>>)]
                  /\ frame' = [frame EXCEPT ![t] = NoFrame]
             ELSE /\ pc' = [pc EXCEPT ![t] = "test_resume"]
                  /\ frame' = [frame EXCEPT ![t].result = Raise("SerialException", <<>>)]
                  /\ UNCHANGED ret
    /\ UNCHANGED <<info, lock, axinfo, wire, listing, found, limit, running, table>>

\* line 159: send_cmd("BU"), the write
OpenSendBU(t) ==
    /\ pc[t] = "opened"
    /\ SendCmd(t, "open_bu", FALSE, <<StrV(<<"B", "U">>)>>, <<>>)
    /\ UNCHANGED <<handleOpen, info, lock, axinfo, listing, found, limit, table>>

\* line 159: send_cmd("BU"), the response
OpenReadBU(t, r) ==
    /\ Received(t, {"open_bu"}, r)
    /\ IF Outcome(r).kind = "raise"
       THEN Finish(t, Outcome(r))
       ELSE /\ Goto(t, "open_v")
            /\ frame' = [frame EXCEPT ![t].model = Outcome(r).val]
            /\ UNCHANGED ret
    /\ UNCHANGED <<handleOpen, info, lock, axinfo, listing, found, limit, table>>

\* line 160: send_cmd("V"), the write
OpenSendV(t) ==
    /\ pc[t] = "open_v"
    /\ SendCmd(t, "open_v", FALSE, <<StrV(<<"V">>)>>, <<>>)
    /\ UNCHANGED <<handleOpen, info, lock, axinfo, listing, found, limit, table>>

\* _open as it would be with the two answers swapped in the DeviceInfo
OpenReadVSwapped(t, r) ==
    /\ Received(t, {"open_v"}, r)
    /\ IF Outcome(r).kind = "raise"
       THEN /\ Finish(t, Outcome(r))
            /\ UNCHANGED info
       ELSE /\ info' = Some(DeviceInfo(ASI, Outcome(r).val, Some(frame[t].model)))
            /\ Finish(t, Return(<<>>))
    /\ UNCHANGED <<handleOpen, lock, axinfo, listing, found, limit, table>>

\* lines 160-161: send_cmd("V"), the response, and the DeviceInfo
OpenReadV(t, r) ==
    /\ Received(t, {"open_v"}, r)
    /\ IF Outcome(r).kind = "raise"
       THEN /\ Finish(t, Outcome(r))
            /\ UNCHANGED info
       ELSE /\ info' = Some(DeviceInfo(ASI, frame[t].model, Some(Outcome(r).val)))
            /\ Finish(t, Return(<<>>))
    /\ UNCHANGED <<handleOpen, lock, axinfo, listing, found, limit, table>>

\* _close as it would be if it left _info in place
CloseKeepInfo(t) ==
    /\ pc[t] = "idle"
    /\ Runnable(t)
    /\ info' = info
    /\ Goto(t, "closing")
    /\ frame' = [frame EXCEPT ![t] = [NoFrame EXCEPT !.op = "close"]]
    /\ UNCHANGED <<handleOpen, lock, axinfo, wire, listing, found, limit, ret, table>>

\* lines 164-165: _info is cleared, then the task hands handle.close to a
\* worker thread and is suspended
Close(t) ==
    /\ pc[t] = "idle"
    /\ Runnable(t)
    /\ info' = None
    /\ Goto(t, "closing")
    /\ frame' = [frame EXCEPT ![t] = [NoFrame EXCEPT !.op = "close"]]
    /\ UNCHANGED <<handleOpen, lock, axinfo, wire, listing, found, limit, ret, table>>

\* the worker thread runs Serial.close; a close made by the finally clause
\* of Tiger.test_open ends test_open with the outcome of its try block
CloseThread(t) ==
    /\ pc[t] = "closing"
    /\ handleOpen' = FALSE
    /\ pc' = [pc EXCEPT ![t] = "idle"]
    /\ ret' = [ret EXCEPT ![t] = IF frame[t].caller = "" THEN Return(<<>>)
                                 ELSE frame[t].result]
    /\ frame' = [frame EXCEPT ![t] = NoFrame]
    /\ UNCHANGED <<info, lock, axinfo, wire, listing, found, limit, running, table>>

(***************************************************************************)
(* Tiger._get_cards.                                                       *)
(***************************************************************************)
(***************************************************************************)
(* Tiger.test_open.                                                        *)
(***************************************************************************)
\* lines 243-244: the try block starts with open(), whose first statement
\* hands handle.open to a worker thread
TestOpen(t) ==
    /\ pc[t] = "idle"
    /\ Runnable(t)
    /\ Goto(t, "opening")
    /\ frame' = [frame EXCEPT ![t] = [NoFrame EXCEPT !.op = "open", !.caller = "test_open"]]
    /\ UNCHANGED <<handleOpen, info, lock, axinfo, wire, listing, found, limit, ret, table>>

\* test_open as it would be without the finally clause: the controller is
\* closed only when the try block raises nothing
TestOpenNoFinally(t) ==
    /\ pc[t] \in {"test_check", "test_resume"}
    /\ Runnable(t)
    /\ LET o == frame[t].result
           outcome == IF o.kind = "raise" THEN o
                      ELSE IF info[1].model # TIGER_COMM THEN UnsupportedDevice
                      ELSE Return(<<>>)
       IN  IF outcome.kind = "raise"
           THEN /\ FinishCall(t, outcome)
                /\ UNCHANGED info
           ELSE /\ info' = None
                /\ Goto(t, "closing")
                /\ frame' = [frame EXCEPT ![t].op = "close", ![t].result = outcome]
                /\ UNCHANGED ret
    /\ UNCHANGED <<handleOpen, lock, axinfo, wire, listing, found, limit, table>>

\* lines 246-251, 164-165: when open() returned the model is compared with
\* "TIGER_COMM"; then, whatever the try block did, the finally clause runs
\* close(): _info is cleared and handle.close is handed to a worker thread
TestOpenFinally(t) ==
    /\ pc[t] \in {"test_check", "test_resume"}
    /\ Runnable(t)
    /\ LET o == frame[t].result
           outcome == IF o.kind = "raise" THEN o
                      ELSE IF info[1].model # TIGER_COMM THEN UnsupportedDevice
                      ELSE Return(<<>>)
       IN  frame' = [frame EXCEPT ![t].op = "close", ![t].result = outcome]
    /\ info' = None
    /\ Goto(t, "closing")
    /\ UNCHANGED <<handleOpen, lock, axinfo, wire, listing, found, limit, ret, table>>

\* line 259: send_cmd("N"), the write
GetCards(t) ==
    /\ pc[t] \in {"idle", "enum_cards"}
    /\ SendCmd(t, "cards", FALSE, <<StrV(<<"N">>)>>, <<>>)
    /\ table' = IF handleOpen THEN table ELSE None
    /\ UNCHANGED <<handleOpen, info, lock, axinfo, listing, found, limit>>

\* lines 259-278: the response and the parse of its lines
GetCardsRead(t, r) ==
    /\ Received(t, {"cards"}, r)
    /\ LET o == Outcome(r)
           cards == IF o.kind = "raise" THEN o ELSE ParseCards(o.val)
       IN  /\ table' = IF cards.kind = "raise" THEN None ELSE Some(cards.val)
           /\ Finish(t, IF cards.kind = "raise" THEN cards ELSE Return(<<>>))
    /\ UNCHANGED <<handleOpen, info, lock, axinfo, listing, found, limit>>

(***************************************************************************)
(* ASIAxis.  Axis a is driven by task a; its parent is the controller.     *)
(***************************************************************************)
\* lines 36-37, 54-56: the outcome of test_open for the outcome o of
\* send_cmd("MC", "<axis>?"): the error of send_cmd, or
\* UnsupportedDeviceError unless the status is "1"
MotorControl(o) ==
    IF o.kind = "raise" THEN o
    ELSE IF o.val = <<"1">> THEN Return(<<>>)
    ELSE UnsupportedDevice

\* lines 34-37, 43-44, 54-55: open() sets the axis DeviceInfo, then the
\* motor_control property is read with send_cmd("MC", "<axis>?"); when the
\* write raises, the finally clause closes the axis
AxisTestOpen(a) ==
    /\ pc[a] = "idle"
    /\ SendCmd(a, "mc", FALSE, <<StrV(<<"M", "C">>), StrV(<<a, "?">>)>>, <<>>)
    /\ axinfo' = [axinfo EXCEPT ![a] =
                     IF handleOpen THEN Some(DeviceInfo(ASI, <<a>>, None)) ELSE None]
    /\ UNCHANGED <<handleOpen, info, lock, listing, found, limit, table>>

\* test_open as it would be without the finally clause: the axis is closed
\* only when no exception is raised
AxisTestOpenReadNoFinally(a, r) ==
    /\ Received(a, {"mc"}, r)
    /\ axinfo' = [axinfo EXCEPT ![a] =
                     IF MotorControl(Outcome(r)) = Return(<<>>) THEN None ELSE @]
    /\ Finish(a, MotorControl(Outcome(r)))
    /\ UNCHANGED <<handleOpen, info, lock, listing, found, limit, table>>

\* lines 37-41, 46-47, 55-56: the response of MC, the check of the status
\* and the close of the finally clause
AxisTestOpenRead(a, r) ==
    /\ Received(a, {"mc"}, r)
    /\ axinfo' = [axinfo EXCEPT ![a] = None]
    /\ Finish(a, MotorControl(Outcome(r)))
    /\ UNCHANGED <<handleOpen, info, lock, listing, found, limit, table>>

(***************************************************************************)
(* Tiger.enumerate_axes.  The axes it returns are the axis identifiers of  *)
(* the ASIAxis objects it built, each closed again by its test_open.       *)
(***************************************************************************)
SCAN_XY_LED == <<"S", "C", "A", "N", "_", "X", "Y", "_", "L", "E", "D">>

STD_ZF == <<"S", "T", "D", "_", "Z", "F">>

\* lines 295-298: the identifiers of the motors of one card
Motors(card) ==
    LET motors == Split(card.function, ",")
    IN  [i \in 1..Len(motors) |-> Split1(motors[i], ":")[1]]

RECURSIVE CandidatesAnyCard(_)
\* the candidates as they would be if the character of a card were not looked at
CandidatesAnyCard(cards) ==
    IF cards = <<>> THEN <<>>
    ELSE Motors(Head(cards)) \o CandidatesAnyCard(Tail(cards))

RECURSIVE Candidates(_)
\* lines 290-298: the list axes, the motors of the cards whose character is
\* SCAN_XY_LED or STD_ZF
Candidates(cards) ==
    IF cards = <<>> THEN <<>>
    ELSE (IF Head(cards).character \in {SCAN_XY_LED, STD_ZF}
          THEN Motors(Head(cards)) ELSE <<>>) \o Candidates(Tail(cards))

\* line 283: enumerate_axes starts by reading the cards property
EnumerateAxes(t) ==
    /\ pc[t] = "idle"
    /\ Runnable(t)
    /\ Goto(t, "enum_cards")
    /\ frame' = [frame EXCEPT ![t] = [NoFrame EXCEPT !.op = "enumerate",
                                                     !.caller = "enumerate_axes"]]
    /\ UNCHANGED <<handleOpen, info, lock, axinfo, wire, listing, found, limit, ret, table>>

\* enumerate_axes as it would be if the loop swallowed every exception of a
\* probe
EnumResumeSwallowAll(t) ==
    /\ pc[t] = "enum_resume"
    /\ Runnable(t)
    /\ LET o == frame[t].result
           probing == frame[t].op = "enum_mc"
           probe == MotorControl(o)
           failed == ~probing /\ o.kind = "raise"
           valid == IF probing /\ probe.kind = "return"
                    THEN Append(frame[t].valid, Head(frame[t].cands))
                    ELSE frame[t].valid
           cands == IF probing THEN Tail(frame[t].cands) ELSE Candidates(table[1])
       IN  IF failed
           THEN /\ found' = None
                /\ FinishCall(t, o)
           ELSE IF cands = <<>>
           THEN /\ found' = Some(valid)
                /\ FinishCall(t, Return(<<>>))
           ELSE /\ found' = found
                /\ Goto(t, "enum_probe")
                /\ frame' = [frame EXCEPT ![t].cands = cands, ![t].valid = valid]
                /\ UNCHANGED ret
    /\ UNCHANGED <<handleOpen, info, lock, axinfo, wire, listing, limit, table>>

\* lines 283-309: control is back in enumerate_axes.  After the cards: an
\* error ends enumerate_axes, else the candidates are listed.  After a
\* probe: UnsupportedDeviceError is swallowed, any other error ends
\* enumerate_axes, a probe that passed is appended to valid_axes.  Then the
\* next candidate is probed, or the tuple is returned
EnumResume(t) ==
    /\ pc[t] = "enum_resume"
    /\ Runnable(t)
    /\ LET o == frame[t].result
           probing == frame[t].op = "enum_mc"
           probe == MotorControl(o)
           failed == IF probing THEN probe.kind = "raise" /\ probe # UnsupportedDevice
                     ELSE o.kind = "raise"
           valid == IF probing /\ probe.kind = "return"
                    THEN Append(frame[t].valid, Head(frame[t].cands))
                    ELSE frame[t].valid
           cands == IF probing THEN Tail(frame[t].cands) ELSE Candidates(table[1])
       IN  IF failed
           THEN /\ found' = None
                /\ FinishCall(t, o)
           ELSE IF cands = <<>>
           THEN /\ found' = Some(valid)
                /\ FinishCall(t, Return(<<>>))
           ELSE /\ found' = found
                /\ Goto(t, "enum_probe")
                /\ frame' = [frame EXCEPT ![t].cands = cands, ![t].valid = valid]
                /\ UNCHANGED ret
    /\ UNCHANGED <<handleOpen, info, lock, axinfo, wire, listing, limit, table>>

\* lines 304-305, 36-37, 54-55: ASIAxis(self, axis).test_open() for the
\* next candidate, the write of send_cmd("MC", "<axis>?")
EnumProbe(t) ==
    /\ pc[t] = "enum_probe"
    /\ SendCmd(t, "enum_mc", FALSE,
               <<StrV(<<"M", "C">>), StrV(Head(frame[t].cands) \o <<"?">>)>>, <<>>)
    /\ UNCHANGED <<handleOpen, info, lock, axinfo, listing, found, limit, table>>

\* lines 55, 212: the response of the MC query of the probe
EnumProbeRead(t, r) ==
    /\ Received(t, {"enum_mc"}, r)
    /\ Finish(t, Outcome(r))
    /\ UNCHANGED <<handleOpen, info, lock, axinfo, listing, found, limit, table>>

MotionOps == {"home", "abs", "rel", "vel", "origin", "stop"}

\* line 61: send_cmd("!", axis)
Home(a, blocking) ==
    /\ pc[a] = "idle"
    /\ SendCmd(a, "home", blocking, <<StrV(<<"!">>), StrV(<<a>>)>>, <<>>)
    /\ UNCHANGED <<handleOpen, info, lock, axinfo, listing, found, limit, table>>

\* the conversion as it would be with the factor 1000 alone
ControllerUnitsMilli(pos) == pos * 1000

\* lines 70, 77: pos *= 1000 * 10, the position in the units of the controller
ControllerUnits(pos) == pos * 1000 * 10

\* lines 70-71: pos *= 1000 * 10; send_cmd("M", **{axis: pos})
SetAbsolutePosition(a, pos, blocking) ==
    /\ pc[a] = "idle"
    /\ SendCmd(a, "abs", blocking, <<StrV(<<"M">>)>>, << <<<<a>>, IntV(ControllerUnits(pos))>> >>)
    /\ UNCHANGED <<handleOpen, info, lock, axinfo, listing, found, limit, table>>

\* lines 77-78: pos *= 1000 * 10; send_cmd("R", **{axis: pos})
SetRelativePosition(a, pos, blocking) ==
    /\ pc[a] = "idle"
    /\ SendCmd(a, "rel", blocking, <<StrV(<<"R">>)>>, << <<<<a>>, IntV(ControllerUnits(pos))>> >>)
    /\ UNCHANGED <<handleOpen, info, lock, axinfo, listing, found, limit, table>>

\* line 89: send_cmd("S", vel)
SetVelocity(a, vel) ==
    /\ pc[a] = "idle"
    /\ SendCmd(a, "vel", FALSE, <<StrV(<<"S">>), IntV(vel)>>, <<>>)
    /\ UNCHANGED <<handleOpen, info, lock, axinfo, listing, found, limit, table>>

\* line 102: send_cmd("HM", "<axis>+")
SetOrigin(a) ==
    /\ pc[a] = "idle"
    /\ SendCmd(a, "origin", FALSE, <<StrV(<<"H", "M">>), StrV(<<a, "+">>)>>, <<>>)
    /\ UNCHANGED <<handleOpen, info, lock, axinfo, listing, found, limit, table>>

\* line 116: send_cmd("\\")
Stop(a) ==
    /\ pc[a] = "idle"
    /\ SendCmd(a, "stop", FALSE, <<StrV(<<"\\">>)>>, <<>>)
    /\ UNCHANGED <<handleOpen, info, lock, axinfo, listing, found, limit, table>>

\* the motion operations as they would be if they waited whatever the
\* blocking flag says
MotionReadAlwaysWait(a, r) ==
    /\ Received(a, MotionOps, r)
    /\ IF Outcome(r).kind = "raise" THEN Finish(a, Outcome(r))
       ELSE /\ Goto(a, "wait")
            /\ UNCHANGED <<ret, frame>>
    /\ UNCHANGED <<handleOpen, info, lock, axinfo, listing, found, limit, table>>

\* the response of a motion command: the error is raised, or the call goes
\* on to wait() when blocking, or returns
MotionRead(a, r) ==
    /\ Received(a, MotionOps, r)
    /\ IF Outcome(r).kind = "raise" THEN Finish(a, Outcome(r))
       ELSE IF frame[a].blocking
       THEN /\ Goto(a, "wait")
            /\ UNCHANGED <<ret, frame>>
       ELSE Finish(a, Return(<<>>))
    /\ UNCHANGED <<handleOpen, info, lock, axinfo, listing, found, limit, table>>

\* lines 118-120: wait() called on its own
Wait(a) ==
    /\ pc[a] = "idle"
    /\ Runnable(a)
    /\ Goto(a, "wait")
    /\ frame' = [frame EXCEPT ![a] = [NoFrame EXCEPT !.op = "wait"]]
    /\ UNCHANGED <<handleOpen, info, lock, axinfo, wire, listing, found, limit, ret, table>>

\* lines 120, 135, 187: the status poll of is_busy, the write; it is made
\* on entering wait() and after each trio.sleep(1)
IsBusyWrite(a) ==
    /\ pc[a] \in {"wait", "sleeping"}
    /\ Runnable(a)
    /\ Budget
    /\ IF handleOpen
       THEN /\ HandleWrite(a, <<"/", CR>>)
            /\ Goto(a, "polled")
            /\ frame' = [frame EXCEPT ![a].req = NextAccess]
            /\ UNCHANGED ret
       ELSE /\ Finish(a, PortNotOpen)
            /\ UNCHANGED wire
    /\ UNCHANGED <<handleOpen, info, lock, axinfo, listing, found, limit, table>>

\* is_busy as it would be if every answer but 'N' meant busy
IsBusyNotIdle(response) == response[1] # "N"

\* response[0] == ord("B")
IsBusy(response) == response[1] = "B"

\* wait() as it would be with the test of is_busy inverted
IsBusyReadInverted(a, r) ==
    /\ pc[a] = "polled"
    /\ Runnable(a)
    /\ IF ~handleOpen
       THEN /\ Finish(a, PortNotOpen)
            /\ UNCHANGED wire
       ELSE /\ HandleRead(a, r)
            /\ IF ReadUntil(r) = <<>> THEN Finish(a, Raise("IndexError", <<>>))
               ELSE IF ~IsBusy(ReadUntil(r))
               THEN /\ Goto(a, "sleeping")
                    /\ UNCHANGED <<ret, frame>>
               ELSE Finish(a, Return(<<>>))
    /\ UNCHANGED <<handleOpen, info, lock, axinfo, listing, found, limit, table>>

\* lines 188-189, 120-121: the status poll of is_busy, the read: busy goes
\* to trio.sleep(1), idle ends wait()
IsBusyRead(a, r) ==
    /\ pc[a] = "polled"
    /\ Runnable(a)
    /\ IF ~handleOpen
       THEN /\ Finish(a, PortNotOpen)
            /\ UNCHANGED wire
       ELSE /\ HandleRead(a, r)
            /\ IF ReadUntil(r) = <<>> THEN Finish(a, Raise("IndexError", <<>>))
               ELSE IF IsBusy(ReadUntil(r))
               THEN /\ Goto(a, "sleeping")
                    /\ UNCHANGED <<ret, frame>>
               ELSE Finish(a, Return(<<>>))
    /\ UNCHANGED <<handleOpen, info, lock, axinfo, listing, found, limit, table>>

(***************************************************************************)
(* Direct calls of the controller's public codec entry points.             *)
(***************************************************************************)
\* send_cmd(*args, **kwargs) called by the application, the write
RawCmd(t, args, kwargs) ==
    /\ pc[t] = "idle"
    /\ SendCmd(t, "raw", FALSE, args, kwargs)
    /\ UNCHANGED <<handleOpen, info, lock, axinfo, listing, found, limit, table>>

\* send_cmd(*args, **kwargs) called by the application, the response
RawRead(t, r) ==
    /\ Received(t, {"raw"}, r)
    /\ Finish(t, Outcome(r))
    /\ UNCHANGED <<handleOpen, info, lock, axinfo, listing, found, limit, table>>

\* the static method interpret_error(errno) called by task t
InterpretError(t, errno) ==
    /\ pc[t] = "idle"
    /\ Runnable(t)
    /\ Finish(t, interpret_error(errno))
    /\ UNCHANGED <<handleOpen, info, lock, axinfo, wire, listing, found, limit, table>>

(***************************************************************************)
(* The driver under concurrent callers: one task drives the controller,    *)
(* one task drives each axis.                                              *)
(***************************************************************************)
Next ==
    \/ Open(Controller)
    \/ OpenThread(Controller)
    \/ OpenSendBU(Controller)
    \/ \E r \in DeviceReplies(LastRequest(Controller), listing) : OpenReadBU(Controller, r)
    \/ OpenSendV(Controller)
    \/ \E r \in DeviceReplies(LastRequest(Controller), listing) : OpenReadV(Controller, r)
    \/ Close(Controller)
    \/ CloseThread(Controller)
    \/ GetCards(Controller)
    \/ \E r \in DeviceReplies(LastRequest(Controller), listing) : GetCardsRead(Controller, r)
    \/ \E a \in Axes : AxisTestOpen(a)
    \/ \E a \in Axes : \E r \in DeviceReplies(LastRequest(a), listing) : AxisTestOpenRead(a, r)
    \/ \E a \in Axes : \E b \in BOOLEAN : Home(a, b)
    \/ \E a \in Axes : \E p \in Positions : \E b \in BOOLEAN : SetAbsolutePosition(a, p, b)
    \/ \E a \in Axes : \E p \in Positions : \E b \in BOOLEAN : SetRelativePosition(a, p, b)
    \/ \E a \in Axes : \E v \in Velocities : SetVelocity(a, v)
    \/ \E a \in Axes : SetOrigin(a)
    \/ \E a \in Axes : Stop(a)
    \/ \E a \in Axes : \E r \in DeviceReplies(LastRequest(a), listing) : MotionRead(a, r)
    \/ \E a \in Axes : Wait(a)
    \/ \E a \in Axes : IsBusyWrite(a)
    \/ \E a \in Axes : \E r \in DeviceReplies(LastRequest(a), listing) : IsBusyRead(a, r)

Spec == Init /\ [][Next]_vars

(***************************************************************************)
(* The same driver observed from the state a successful open leaves: the   *)
(* handle open, DeviceInfo built from the answers to BU and V.             *)
(***************************************************************************)
RespVersionPayload == <<"3", ".", "4", "0">>

InitOpened ==
    /\ handleOpen = TRUE
    /\ info = Some(DeviceInfo(ASI, TIGER_COMM, Some(RespVersionPayload)))
    /\ lock = None
    /\ axinfo = [a \in Axes |-> None]
    /\ wire = <<>>
    /\ listing = DefaultListing
    /\ running = "none"
    /\ pc = [t \in Tasks |-> "idle"]
    /\ frame = [t \in Tasks |-> NoFrame]
    /\ ret = [t \in Tasks |-> Return(<<>>)]
    /\ table = None
    /\ found = None
    /\ limit = MaxWire

SpecOpened == InitOpened /\ [][Next]_vars

(***************************************************************************)
(* Response parsing on arbitrary responses: one send_cmd call on an open   *)
(* controller, answered by any byte sequence ending in CRLF.               *)
(***************************************************************************)
SeqsUpTo(S, n) == UNION {[1..k -> S] : k \in 0..n}

RespAlphabet == {":", "A", "N", SP, "1", "2", "x", CR, NonAscii}

ArbitraryResponses == {b \o <<CR, LF>> : b \in SeqsUpTo(RespAlphabet, MaxRespLen)}

NextParse ==
    \/ wire = <<>> /\ RawCmd(Controller, <<StrV(<<"W">>), StrV(<<"X">>)>>, <<>>)
    \/ \E r \in ArbitraryResponses : RawRead(Controller, r)

SpecParse == InitOpened /\ [][NextParse]_vars

(***************************************************************************)
(* The errno mapping called with arbitrary integers while the controller   *)
(* is opened and closed.                                                   *)
(***************************************************************************)
Errnos == (0 - MaxErrno)..MaxErrno

NextErrno ==
    \/ \E e \in Errnos : InterpretError("X", e)
    \/ Open(Controller)
    \/ OpenThread(Controller)
    \/ Close(Controller)
    \/ CloseThread(Controller)

SpecErrno == Init /\ [][NextErrno]_vars

(***************************************************************************)
(* Command formatting on arbitrary tokens: one send_cmd call on an open    *)
(* controller.                                                             *)
(***************************************************************************)
ArgValues == {StrV(<<"M">>), StrV(<<"H", "M">>), IntV(5), IntV(-20000)}

KwKeys == {<<"X">>, <<"Y">>}

KwValues == {IntV(5000), IntV(-20000), StrV(<<"a">>)}

ArbitraryArgs == SeqsUpTo(ArgValues, MaxArgs)

\* the mappings: sequences of <<key, value>> with distinct keys
ArbitraryKwargs ==
    {kw \in SeqsUpTo(KwKeys \X KwValues, MaxKw) :
        \A i, j \in 1..Len(kw) : i # j => kw[i][1] # kw[j][1]}

NextFormat ==
    \/ /\ wire = <<>>
       /\ \E args \in ArbitraryArgs : \E kwargs \in ArbitraryKwargs :
             RawCmd(Controller, args, kwargs)
    \/ \E r \in DeviceReplies(LastRequest(Controller), listing) : RawRead(Controller, r)

SpecFormat == InitOpened /\ [][NextFormat]_vars

(***************************************************************************)
(* Card listing on arbitrary listings: one _get_cards call on an open      *)
(* controller whose firmware holds any listing of 1..MaxLines lines.       *)
(***************************************************************************)
ArbitraryListings == UNION {[1..k -> ListingLines] : k \in 1..MaxLines}

InitCards ==
    /\ handleOpen = TRUE
    /\ info = Some(DeviceInfo(ASI, TIGER_COMM, Some(RespVersionPayload)))
    /\ lock = None
    /\ axinfo = [a \in Axes |-> None]
    /\ wire = <<>>
    /\ listing \in ArbitraryListings
    /\ running = "none"
    /\ pc = [t \in Tasks |-> "idle"]
    /\ frame = [t \in Tasks |-> NoFrame]
    /\ ret = [t \in Tasks |-> Return(<<>>)]
    /\ table = None
    /\ found = None
    /\ limit = MaxWire

NextCards ==
    \/ wire = <<>> /\ GetCards(Controller)
    \/ \E r \in DeviceReplies(LastRequest(Controller), listing) : GetCardsRead(Controller, r)

SpecCards == InitCards /\ [][NextCards]_vars

(***************************************************************************)
(* The status poll on arbitrary answers: one wait() call on an open        *)
(* controller, its first poll answered by any byte sequence ending in CRLF.*)
(***************************************************************************)
PollAlphabet == {"B", "b", "N", ":", "A", SP, CR, NonAscii}

ArbitraryAnswers == {b \o <<CR, LF>> : b \in SeqsUpTo(PollAlphabet, MaxRespLen)}

NextBusy ==
    \/ wire = <<>> /\ Wait("X")
    \/ wire = <<>> /\ IsBusyWrite("X")
    \/ \E r \in ArbitraryAnswers : IsBusyRead("X", r)

SpecBusy == InitOpened /\ [][NextBusy]_vars

(***************************************************************************)
(* Position commands on arbitrary positions: one set_absolute_position or  *)
(* set_relative_position call of an axis on an open controller.            *)
(***************************************************************************)
ArbitraryPositions == (0 - MaxPos)..MaxPos

NextPosition ==
    \/ /\ wire = <<>>
       /\ \E a \in Axes : \E p \in ArbitraryPositions : \E b \in BOOLEAN :
              SetAbsolutePosition(a, p, b)
    \/ /\ wire = <<>>
       /\ \E a \in Axes : \E p \in ArbitraryPositions : \E b \in BOOLEAN :
              SetRelativePosition(a, p, b)
    \/ \E a \in Axes : \E r \in DeviceReplies(LastRequest(a), listing) : MotionRead(a, r)

SpecPosition == InitOpened /\ [][NextPosition]_vars

(***************************************************************************)
(* The life cycle of the controller: open, close and Tiger.test_open       *)
(* called one after the other from construction.                           *)
(***************************************************************************)
InitLifecycle ==
    /\ handleOpen = FALSE
    /\ info = None
    /\ lock = None
    /\ axinfo = [a \in Axes |-> None]
    /\ wire = <<>>
    /\ listing = DefaultListing
    /\ running = "none"
    /\ pc = [t \in Tasks |-> "idle"]
    /\ frame = [t \in Tasks |-> NoFrame]
    /\ ret = [t \in Tasks |-> Return(<<>>)]
    /\ table = None
    /\ found = None
    /\ limit = MaxLifeWire

NextLifecycle ==
    \/ Open(Controller)
    \/ OpenThread(Controller)
    \/ OpenSendBU(Controller)
    \/ \E r \in DeviceReplies(LastRequest(Controller), listing) : OpenReadBU(Controller, r)
    \/ OpenSendV(Controller)
    \/ \E r \in DeviceReplies(LastRequest(Controller), listing) : OpenReadV(Controller, r)
    \/ Close(Controller)
    \/ CloseThread(Controller)
    \/ TestOpen(Controller)
    \/ TestOpenFinally(Controller)

SpecLifecycle == InitLifecycle /\ [][NextLifecycle]_vars

(***************************************************************************)
(* Axis enumeration on arbitrary listings: one enumerate_axes call on an   *)
(* open controller whose firmware holds any listing of 1..MaxLines lines   *)
(* with single spaces between the fields.                                  *)
(***************************************************************************)
CardCharacters == {STD_ZF, SCAN_XY_LED, TIGER_COMM}

EnumLines ==
    [address : {31}, colon : BOOLEAN, function : ListingFunctions,
     nfields : {3}, sep : {<<SP>>}, character : CardCharacters]

EnumListings == UNION {[1..k -> EnumLines] : k \in 1..MaxLines}

InitEnum ==
    /\ handleOpen = TRUE
    /\ info = Some(DeviceInfo(ASI, TIGER_COMM, Some(RespVersionPayload)))
    /\ lock = None
    /\ axinfo = [a \in Axes |-> None]
    /\ wire = <<>>
    /\ listing \in EnumListings
    /\ running = "none"
    /\ pc = [t \in Tasks |-> "idle"]
    /\ frame = [t \in Tasks |-> NoFrame]
    /\ ret = [t \in Tasks |-> Return(<<>>)]
    /\ table = None
    /\ found = None
    /\ limit = MaxEnumWire

NextEnum ==
    \/ wire = <<>> /\ EnumerateAxes(Controller)
    \/ pc[Controller] = "enum_cards" /\ GetCards(Controller)
    \/ \E r \in DeviceReplies(LastRequest(Controller), listing) : GetCardsRead(Controller, r)
    \/ EnumResume(Controller)
    \/ EnumProbe(Controller)
    \/ \E r \in DeviceReplies(LastRequest(Controller), listing) : EnumProbeRead(Controller, r)

SpecEnum == InitEnum /\ [][NextEnum]_vars

(***************************************************************************)
(* One motion operation of an axis on an open controller, followed to its  *)
(* end through the status polls of wait().                                 *)
(***************************************************************************)
InitMotion ==
    /\ handleOpen = TRUE
    /\ info = Some(DeviceInfo(ASI, TIGER_COMM, Some(RespVersionPayload)))
    /\ lock = None
    /\ axinfo = [a \in Axes |-> None]
    /\ wire = <<>>
    /\ listing = DefaultListing
    /\ running = "none"
    /\ pc = [t \in Tasks |-> "idle"]
    /\ frame = [t \in Tasks |-> NoFrame]
    /\ ret = [t \in Tasks |-> Return(<<>>)]
    /\ table = None
    /\ found = None
    /\ limit = MaxMotionWire

NextMotion ==
    \/ wire = <<>> /\ \E a \in Axes : \E b \in BOOLEAN : Home(a, b)
    \/ wire = <<>> /\ \E a \in Axes : \E p \in Positions : \E b \in BOOLEAN :
                         SetAbsolutePosition(a, p, b)
    \/ wire = <<>> /\ \E a \in Axes : \E p \in Positions : \E b \in BOOLEAN :
                         SetRelativePosition(a, p, b)
    \/ wire = <<>> /\ \E a \in Axes : \E v \in Velocities : SetVelocity(a, v)
    \/ wire = <<>> /\ \E a \in Axes : SetOrigin(a)
    \/ wire = <<>> /\ \E a \in Axes : Stop(a)
    \/ \E a \in Axes : \E r \in DeviceReplies(LastRequest(a), listing) : MotionRead(a, r)
    \/ \E a \in Axes : IsBusyWrite(a)
    \/ \E a \in Axes : \E r \in DeviceReplies(LastRequest(a), listing) : IsBusyRead(a, r)

SpecMotion == InitMotion /\ [][NextMotion]_vars

(***************************************************************************)
(* wait() of axis X without a bound on its polls, while axis Y keeps       *)
(* issuing commands.  trio runs every task that is ready in each pass of   *)
(* its scheduler, so a waiter whose sleep is over again and again does     *)
(* make its next poll; a task that has the scheduler runs on to its next   *)
(* await, so a request that has been written is read back and a blocking   *)
(* operation goes on to its first poll.                                    *)
(***************************************************************************)
InitWait ==
    /\ handleOpen = TRUE
    /\ info = Some(DeviceInfo(ASI, TIGER_COMM, Some(RespVersionPayload)))
    /\ lock = None
    /\ axinfo = [a \in Axes |-> None]
    /\ wire = <<>>
    /\ listing = DefaultListing
    /\ running = "none"
    /\ pc = [t \in Tasks |-> "idle"]
    /\ frame = [t \in Tasks |-> NoFrame]
    /\ ret = [t \in Tasks |-> Return(<<>>)]
    /\ table = None
    /\ found = None
    /\ limit = 0

PollRead(a) == \E r \in DeviceReplies(LastRequest(a), listing) : IsBusyRead(a, r)

CommandRead(a) == \E r \in DeviceReplies(LastRequest(a), listing) : MotionRead(a, r)

NextWait ==
    \/ Wait("X")
    \/ IsBusyWrite("X")
    \/ PollRead("X")
    \/ Stop("Y")
    \/ SetOrigin("Y")
    \/ \E b \in BOOLEAN : Home("Y", b)
    \/ \E p \in Positions : \E b \in BOOLEAN : SetRelativePosition("Y", p, b)
    \/ CommandRead("Y")
    \/ IsBusyWrite("Y")
    \/ PollRead("Y")

SpecWait ==
    /\ InitWait
    /\ [][NextWait]_vars
    /\ SF_vars(IsBusyWrite("X"))
    /\ WF_vars(PollRead("X"))
    /\ WF_vars(CommandRead("Y"))
    /\ WF_vars(IsBusyWrite("Y"))
    /\ WF_vars(PollRead("Y"))

(***************************************************************************)
(* Properties.                                                             *)
(***************************************************************************)
StatusQuery == <<"/", CR>>

IdentificationCommands == {<<"B", "U", CR>>, <<"V", CR>>}

\* the call of task t has ended and its response is the last link access
Answered(t) ==
    /\ pc[t] = "idle"
    /\ wire # <<>>
    /\ wire[Len(wire)].kind = "read"
    /\ wire[Len(wire)].who = t

\* C1: every response read on the link directly follows the request write
\* it answers, made by the same caller, and while a caller is between its
\* write and its read its request is the last access on the link: no
\* access of another caller comes between a request and its response.
C1_RequestResponsePaired ==
    /\ \A k \in 1..Len(wire) :
          wire[k].kind = "read" =>
             /\ k > 1
             /\ wire[k].req = k - 1
             /\ wire[k - 1].kind = "write"
             /\ wire[k - 1].who = wire[k].who
    /\ \A t \in Tasks : pc[t] \in {"sent", "polled"} => frame[t].req = Len(wire)

\* C1 witness: two different callers have each completed a cycle on the
\* link, one a status poll of is_busy and the other a send_cmd command.
C1_TwoCallersServed ==
    \E i, j \in 2..Len(wire) :
       /\ wire[i].kind = "read" /\ wire[j].kind = "read"
       /\ wire[i].who # wire[j].who
       /\ wire[i - 1].data = StatusQuery
       /\ wire[j - 1].data # StatusQuery

\* C2: every access to the link, the write and the read of send_cmd and of
\* the status poll of is_busy, is made by a caller that holds the lock.
C2_AccessUnderLock ==
    [][Len(wire') > Len(wire) => lock = Some(wire'[Len(wire')].who)]_vars

\* C3: in every reachable state the controller reports itself opened
\* exactly when its DeviceInfo is present.
C3_OpenedIffDeviceInfo == is_opened = (info # None)

\* C4: a command other than the identification commands BU and V is
\* written to the link by send_cmd only while the controller holds
\* DeviceInfo.
C4_DeviceInfoBeforeCommands ==
    [][(/\ Len(wire') > Len(wire)
        /\ wire'[Len(wire')].kind = "write"
        /\ wire'[Len(wire')].data \notin IdentificationCommands \cup {StatusQuery})
          => info # None]_vars

MappedKinds ==
    {"UnknownCommandError", "UnrecognizedAxisError", "MissingParameterError",
     "OutOfRangeError", "RuntimeError", "InvalidCardAddressError", "HaltError",
     "UnknownError"}

\* C5: for every response ending in CRLF, send_cmd either returns a string
\* or, for a response starting with :N, raises one of the errno-mapped
\* errors; it fails in no other way.
C5_ParsingTotal ==
    \A t \in Tasks :
       Answered(t) =>
          \/ ret[t].kind = "return"
          \/ /\ ret[t].klass \in MappedKinds
             /\ StartsWith(wire[Len(wire)].data, <<":", "N">>)

\* the fixed kinds of the errno table: class and message
FixedKinds ==
    (1 :> <<"UnknownCommandError", <<>>>>) @@ (2 :> <<"UnrecognizedAxisError", <<>>>>)
    @@ (3 :> <<"MissingParameterError", <<>>>>) @@ (4 :> <<"OutOfRangeError", <<>>>>)
    @@ (5 :> <<"RuntimeError", OperationFailed>>) @@ (6 :> <<"RuntimeError", UndefinedError>>)
    @@ (7 :> <<"InvalidCardAddressError", <<>>>>) @@ (21 :> <<"HaltError", <<>>>>)

\* C6: whatever the state of the controller, interpret_error raises for
\* each of 1..7 and 21 its fixed kind, and for every other integer the
\* unknown error whose message carries that integer.
C6_ErrnoMappingTotal ==
    [][\A e \in Errnos :
          InterpretError("X", e) =>
             /\ ret'["X"].kind = "raise"
             /\ IF e \in DOMAIN FixedKinds
                THEN /\ ret'["X"].klass = FixedKinds[e][1]
                     /\ ret'["X"].msg = FixedKinds[e][2]
                ELSE /\ ret'["X"].klass = "UnknownError"
                     /\ StartsWith(ret'["X"].msg, ErrnoText)
                     /\ ParseInt(Drop(ret'["X"].msg, Len(ErrnoText)))
                           = [ok |-> TRUE, val |-> e]]_vars

\* C6 witness: the halt error of errno 21 was raised while the handle was
\* open and DeviceInfo absent.
C6_HaltRaised ==
    /\ handleOpen
    /\ info = None
    /\ ret["X"] = Raise("HaltError", <<>>)

\* C7: an ASCII response starting with :A makes send_cmd return what
\* follows the third character, one starting with :N makes it raise the
\* error mapped from the decimal number after the third character, any
\* other is returned as it is (CR turned to newline, trailing whitespace
\* stripped).
C7_ClassifiedByPrefix ==
    \A t \in Tasks :
       (Answered(t) /\ IsAscii(wire[Len(wire)].data)) =>
          LET raw == wire[Len(wire)].data
              text == RStrip(ReplaceCR(raw))
          IN  IF StartsWith(raw, <<":", "A">>) THEN ret[t] = Return(Drop(text, 3))
              ELSE IF StartsWith(raw, <<":", "N">>)
              THEN /\ ret[t].kind = "raise"
                   /\ ParseInt(Drop(text, 3)).ok
                   /\ ret[t] = interpret_error(ParseInt(Drop(text, 3)).val)
              ELSE ret[t] = Return(text)

\* the tokens of a command: the positional ones in order, then KEY=VALUE
\* for each named one in the order of the mapping
ExpectedTokens(args, kwargs) ==
    [i \in 1..(Len(args) + Len(kwargs)) |->
        IF i <= Len(args) THEN Str(args[i])
        ELSE kwargs[i - Len(args)][1] \o <<"=">> \o Str(kwargs[i - Len(args)][2])]

\* C8: the bytes send_cmd writes end with the only carriage return, and
\* what precedes it splits at single spaces into exactly the tokens of the
\* call, positional first; M with X=5000 writes M X=5000\r; one call makes
\* one write.
C8_CommandFormat ==
    /\ \A t \in Tasks :
          pc[t] = "sent" =>
             LET d == wire[frame[t].req].data
                 body == SubSeq(d, 1, Len(d) - 1)
                 toks == ExpectedTokens(frame[t].args, frame[t].kwargs)
             IN  /\ d # <<>>
                 /\ d[Len(d)] = CR
                 /\ \A i \in 1..Len(body) : body[i] # CR
                 /\ IF toks = <<>> THEN body = <<>> ELSE Split(body, SP) = toks
                 /\ (/\ frame[t].args = <<StrV(<<"M">>)>>
                     /\ frame[t].kwargs = << <<<<"X">>, IntV(5000)>> >>)
                       => d = <<"M", SP, "X", "=", "5", "0", "0", "0", CR>>
    /\ wire # <<>> => Cardinality({i \in 1..Len(wire) : wire[i].kind = "write"}) = 1

\* C8 witness: a call with two positional and two named tokens has
\* written its command.
C8_MixedCommandWritten ==
    /\ pc[Controller] = "sent"
    /\ Len(frame[Controller].args) = 2
    /\ Len(frame[Controller].kwargs) = 2
    /\ wire[1].data = <<"M", SP, "5", SP, "Y", "=", "a", SP, "X", "=", "5", "0", "0", "0", CR>>

\* C9: when every line of the listing is well formed, _get_cards returns a
\* table with one card per line, in order, whose address, function,
\* version and character are those of the line, whatever whitespace
\* separates the fields.
C9_CardTableRoundTrip ==
    (Answered(Controller) /\ \A i \in 1..Len(listing) : GoodLine(listing[i])) =>
       /\ table # None
       /\ Len(table[1]) = Len(listing)
       /\ \A i \in 1..Len(listing) :
             /\ table[1][i].address = listing[i].address
             /\ table[1][i].function = listing[i].function
             /\ table[1][i].version = ListingFields[1]
             /\ table[1][i].character = ListingFields[2]

\* C10: when some line of the listing is malformed (no colon after the
\* address, or fewer than three fields), _get_cards raises and yields no
\* table.
C10_CardTableAllOrNothing ==
    (Answered(Controller) /\ \E i \in 1..Len(listing) : ~GoodLine(listing[i])) =>
       /\ table = None
       /\ ret[Controller].kind = "raise"

\* C11: the status poll writes '/' and CR, and whatever the link answers the
\* poll reports busy (the waiter goes to sleep) exactly when the first byte
\* of the answer is 'B' and idle (wait returns) otherwise, without raising
C11_BusyIffFirstByteB ==
    Len(wire) = 2 =>
        /\ wire[1].kind = "write" /\ wire[1].data = <<"/", CR>>
        /\ wire[2].kind = "read"
        /\ IF wire[2].data[1] = "B"
           THEN pc["X"] = "sleeping"
           ELSE pc["X"] = "idle" /\ ret["X"] = Return(<<>>)

\* a poll answered by bytes that start with 'B' and are not the firmware's
\* plain busy answer
C11_BusyReported ==
    /\ Len(wire) = 2
    /\ wire[2].data = <<"B", ":", "A", CR, LF>>
    /\ pc["X"] = "sleeping"

\* the bytes written last are the command letter and one named token
\* <axis>=<integer> whose integer is 10000 * p
PositionWritten(letter, a, p) ==
    LET d == wire'[Len(wire')].data
        tokens == Split(SubSeq(d, 1, Len(d) - 1), SP)
        named == Split(tokens[2], "=")
    IN  /\ Len(wire') = 1
        /\ d[Len(d)] = CR
        /\ Len(tokens) = 2 /\ tokens[1] = <<letter>>
        /\ Len(named) = 2 /\ named[1] = <<a>>
        /\ ParseInt(named[2]) = [ok |-> TRUE, val |-> 10000 * p]
        /\ (p = 5 => named[2] = <<"5", "0", "0", "0", "0">>)
        /\ (p = -2 => named[2] = <<"-", "2", "0", "0", "0", "0">>)

\* C12: for every integer p, set_absolute_position(p) writes the M command
\* and set_relative_position(p) the R command, each with one named argument
\* keyed by the axis identifier whose value is exactly 10000 * p, sign kept
C12_PositionScaled ==
    [][\A a \in Axes : \A p \in ArbitraryPositions : \A b \in BOOLEAN :
          /\ SetAbsolutePosition(a, p, b) => PositionWritten("M", a, p)
          /\ SetRelativePosition(a, p, b) => PositionWritten("R", a, p)]_vars

\* a relative move by -2 has been written as -20000
C12_NegativeMoveWritten ==
    /\ Len(wire) >= 1
    /\ wire[1].data = <<"R", SP, "Y", "=", "-", "2", "0", "0", "0", "0", CR>>

\* the step of axis a ends its test_open
TestOpenEnds(a) == pc[a] = "sent" /\ frame[a].op = "mc" /\ pc'[a] = "idle"

\* the payload the MC query of the ending test_open returned, None when the
\* query raised
MotorControlPayload ==
    IF handleOpen /\ Len(wire') > Len(wire)
    THEN LET o == _check_error(wire'[Len(wire')].data)
         IN  IF o.kind = "return" THEN Some(o.val) ELSE None
    ELSE None

\* C13: Axis.test_open leaves the axis closed (no DeviceInfo) whatever its
\* outcome, and raises UnsupportedDeviceError exactly when the MC query
\* returned a payload other than '1'; a query that raises ends test_open
\* with that error
C13_AxisClosedAfterTestOpen ==
    [][\A a \in Axes :
          /\ pc'[a] = "idle" => axinfo'[a] = None
          /\ TestOpenEnds(a) =>
                /\ ret'[a] = UnsupportedDevice
                      <=> (MotorControlPayload # None /\ MotorControlPayload # Some(<<"1">>))
                /\ ret'[a] = Return(<<>>) <=> MotorControlPayload = Some(<<"1">>)
                /\ ret'[a].kind = "raise" /\ ret'[a] # UnsupportedDevice
                      <=> MotorControlPayload = None]_vars

\* a test_open that found the axis without motor control has ended, the
\* axis closed
C13_UnsupportedAxisClosed ==
    /\ Answered("X")
    /\ wire[Len(wire)].data = RespZero
    /\ ret["X"] = UnsupportedDevice
    /\ axinfo["X"] = None

\* the step is a link access of the controller task: the write of bytes
\* req, or the read of the answer to a request in reqs
CtlWrites(req) ==
    /\ Len(wire') = Len(wire) + 1
    /\ wire'[Len(wire')] = [who |-> Controller, kind |-> "write", data |-> req,
                            req |-> Len(wire')]

CtlReadsAnswerTo(reqs) ==
    /\ Len(wire') = Len(wire) + 1
    /\ wire'[Len(wire')].who = Controller
    /\ wire'[Len(wire')].kind = "read"
    /\ wire[Len(wire)].who = Controller
    /\ wire[Len(wire)].kind = "write"
    /\ wire[Len(wire)].data \in reqs

\* the bytes of a successful answer carrying payload
AnswerOf(payload) == <<":", "A", SP>> \o payload \o <<CR, LF>>

\* C15: opening the controller opens the handle, then queries BU, then V,
\* in that order; when both succeed the DeviceInfo is vendor 'ASI', model
\* the BU payload and version the V payload; when either query fails the
\* DeviceInfo stays absent
C15_OpenOrderAndDeviceInfo ==
    [][/\ CtlWrites(<<"B", "U", CR>>) => handleOpen /\ info = None
       /\ CtlWrites(<<"V", CR>>) =>
             /\ Len(wire) >= 2
             /\ wire[Len(wire) - 1] = [who |-> Controller, kind |-> "write",
                                       data |-> <<"B", "U", CR>>, req |-> Len(wire) - 1]
             /\ wire[Len(wire)].who = Controller /\ wire[Len(wire)].kind = "read"
             /\ _check_error(wire[Len(wire)].data).kind = "return"
             /\ handleOpen /\ info = None
       /\ (info' # info /\ info' # None) =>
             /\ CtlReadsAnswerTo({<<"V", CR>>})
             /\ Len(wire') >= 4
             /\ wire'[Len(wire') - 3] = [who |-> Controller, kind |-> "write",
                                         data |-> <<"B", "U", CR>>,
                                         req |-> Len(wire') - 3]
             /\ wire'[Len(wire') - 2].who = Controller
             /\ wire'[Len(wire') - 2].kind = "read"
             /\ info'[1].vendor = <<"A", "S", "I">>
             /\ wire'[Len(wire') - 2].data = AnswerOf(info'[1].model)
             /\ wire'[Len(wire')].data = AnswerOf(info'[1].version[1])
             /\ handleOpen'
       /\ (CtlReadsAnswerTo(IdentificationCommands)
              /\ _check_error(wire'[Len(wire')].data).kind = "raise") =>
             info' = None /\ ret'[Controller] = _check_error(wire'[Len(wire')].data)
       /\ (CtlReadsAnswerTo({<<"V", CR>>})
              /\ _check_error(wire'[Len(wire')].data).kind = "return") =>
             info' # None]_vars

\* the controller has been opened from construction, the firmware having
\* answered ':A TIGER_COMM' and ':A 3.40'
C15_OpenedAsTiger ==
    /\ Len(wire) = 4
    /\ wire[2].data = RespTiger
    /\ wire[4].data = RespVersion
    /\ handleOpen
    /\ info = Some([vendor |-> <<"A", "S", "I">>,
                    model |-> <<"T", "I", "G", "E", "R", "_", "C", "O", "M", "M">>,
                    version |-> Some(<<"3", ".", "4", "0">>)])

\* the step ends the test_open of the controller task
TigerTestOpenEnds == frame[Controller].caller = "test_open" /\ pc'[Controller] = "idle"

\* the model the open() of the ending test_open found: the payload of the
\* answer to its BU query when its V query, the last request of the call,
\* was answered without error; None when open() did not succeed
OpenedModel ==
    LET q == frame[Controller].req
    IN  IF /\ q >= 3 /\ q < Len(wire)
           /\ wire[q].data = <<"V", CR>>
           /\ wire[q - 2].data = <<"B", "U", CR>>
           /\ _check_error(wire[q + 1].data).kind = "return"
        THEN Some(Drop(RStrip(ReplaceCR(wire[q - 1].data)), 3))
        ELSE None

\* C16: Tiger.test_open raises UnsupportedDeviceError exactly when the
\* controller opened and its model is not 'TIGER_COMM', returns when the
\* model is 'TIGER_COMM', and in every outcome leaves the controller
\* closed: no DeviceInfo, handle closed
C16_TigerTestOpen ==
    [][TigerTestOpenEnds =>
          /\ info' = None
          /\ ~handleOpen'
          /\ ret'[Controller] = UnsupportedDevice
                <=> (OpenedModel # None /\ OpenedModel # Some(TIGER_COMM))
          /\ ret'[Controller] = Return(<<>>) <=> OpenedModel = Some(TIGER_COMM)
          /\ ret'[Controller].kind = "raise" /\ ret'[Controller] # UnsupportedDevice
                <=> OpenedModel = None]_vars

\* a test_open has found another model than TIGER_COMM and left the
\* controller closed
C16_OtherModelRejected ==
    /\ Len(wire) = 4
    /\ wire[2].data = RespOther
    /\ wire[4].data = RespVersion
    /\ pc[Controller] = "idle"
    /\ ret[Controller] = UnsupportedDevice
    /\ info = None
    /\ ~handleOpen

FunctionMotors(function) ==
    IF function = <<"X", ":", "M", ",", "Y", ":", "M">> THEN << <<"X">>, <<"Y">> >>
    ELSE << <<"C", "o", "m", "m">> >>

RECURSIVE ExpectedCandidates(_)
\* the motors of the lines of a listing whose character is one of the two
\* axis tags, in line order then motor order
ExpectedCandidates(ls) ==
    IF ls = <<>> THEN <<>>
    ELSE (IF Head(ls).character \in {<<"S", "C", "A", "N", "_", "X", "Y", "_", "L", "E", "D">>,
                                     <<"S", "T", "D", "_", "Z", "F">>}
          THEN FunctionMotors(Head(ls).function) ELSE <<>>)
            \o ExpectedCandidates(Tail(ls))

\* the bytes of the MC query for motor identifier m
ProbeOf(m) == <<"M", "C", SP>> \o m \o <<"?", CR>>

RECURSIVE KeptProbes(_, _)
\* of the first n candidates, those whose probe the firmware answered ':A 1'
KeptProbes(expected, n) ==
    IF n = 0 THEN <<>>
    ELSE KeptProbes(expected, n - 1)
            \o (IF wire[2 * n + 2].data = RespOne THEN <<expected[n]>> ELSE <<>>)

\* the enumerate_axes call has ended
Enumerated == pc[Controller] = "idle" /\ wire # <<>>

\* C14: enumerate_axes probes the motors of the cards tagged SCAN_XY_LED or
\* STD_ZF and no other, in card order then motor order, and returns exactly
\* those whose probe succeeded, in that order; a candidate whose probe
\* raises UnsupportedDeviceError is dropped and the enumeration goes on
C14_EnumeratedAxes ==
    LET expected == ExpectedCandidates(listing)
    IN  /\ \A i \in 1..Len(wire) :
              (i > 1 /\ wire[i].kind = "write") =>
                 /\ i % 2 = 1
                 /\ (i - 1) \div 2 <= Len(expected)
                 /\ wire[i].data = ProbeOf(expected[(i - 1) \div 2])
        /\ (Enumerated /\ ret[Controller] = Return(<<>>)) =>
              /\ Len(wire) = 2 * Len(expected) + 2
              /\ found = Some(KeptProbes(expected, Len(expected)))

\* two cards, only the first tagged as an axis card; its motor X has no
\* motor control and is dropped, its motor Y is returned
C14_SecondMotorKept ==
    /\ Enumerated
    /\ Len(listing) = 2
    /\ listing[1].function = <<"X", ":", "M", ",", "Y", ":", "M">>
    /\ listing[1].character = SCAN_XY_LED
    /\ listing[2].character = TIGER_COMM
    /\ Len(wire) = 6
    /\ wire[4].data = RespZero
    /\ wire[6].data = RespOne
    /\ found = Some(<< <<"Y">> >>)

\* the k-th answer of the call is an error: the listing has a line without
\* the colon, or the MC query of a probe is answered with an error code
EnumFailsAt(k) ==
    IF k = 1 THEN \E i \in 1..Len(listing) : ~listing[i].colon
    ELSE _check_error(wire[2 * k].data).kind = "raise"

EnumErrorAt(k) ==
    IF k = 1 THEN Raise("ValueError", <<>>) ELSE _check_error(wire[2 * k].data)

\* C17: an error of the card listing or of the MC query of a probe, other
\* than UnsupportedDeviceError, ends enumerate_axes with that error: no
\* axes are returned and no further candidate is probed; nothing else makes
\* enumerate_axes fail
C17_EnumerationFailsFast ==
    /\ \A k \in 1..(Len(wire) \div 2) :
          EnumFailsAt(k) =>
             /\ Len(wire) = 2 * k
             /\ found = None
             /\ pc[Controller] \in {"enum_resume", "idle"}
             /\ pc[Controller] = "idle" => ret[Controller] = EnumErrorAt(k)
    /\ (Enumerated /\ \A k \in 1..(Len(wire) \div 2) : ~EnumFailsAt(k)) =>
          /\ ret[Controller] = Return(<<>>)
          /\ found # None

\* the probe of the first of several candidates was answered with an error
\* code and enumerate_axes has ended with that error
C17_ProbeErrorRaised ==
    /\ Enumerated
    /\ Len(ExpectedCandidates(listing)) >= 2
    /\ Len(wire) = 4
    /\ wire[4].data = RespErr2
    /\ ret[Controller] = interpret_error(2)
    /\ found = None

\* the first characters of the commands of home, set_absolute_position and
\* set_relative_position, the operations that take a blocking flag
BlockingCommands == {"!", "M", "R"}

\* C18: a motion operation writes one command and never writes it again;
\* every later write is a status poll.  Polls are made only by home,
\* set_absolute_position and set_relative_position called with
\* blocking=True, only after the command was answered without error, and
\* such a call returns only on a poll answered idle
C18_OneCommandThenPolls ==
    /\ [](wire # <<>> =>
            /\ wire[1].kind = "write"
            /\ wire[1].data # <<"/", CR>>
            /\ \A k \in 2..Len(wire) :
                  wire[k].kind = "write" => wire[k].data = <<"/", CR>>
            /\ Len(wire) >= 3 =>
                  /\ wire[1].data[1] \in BlockingCommands
                  /\ wire[2].kind = "read"
                  /\ _check_error(wire[2].data).kind = "return")
    /\ [][\A a \in Axes :
             /\ (Len(wire') > Len(wire) /\ wire'[Len(wire')].who = a
                    /\ wire'[Len(wire')].data = <<"/", CR>>) => frame[a].blocking
             /\ (pc[a] # "idle" /\ pc'[a] = "idle" /\ frame[a].blocking
                    /\ ret'[a] = Return(<<>>)) =>
                   /\ Len(wire') >= 4
                   /\ wire'[Len(wire') - 1].data = <<"/", CR>>
                   /\ wire'[Len(wire')].kind = "read"
                   /\ wire'[Len(wire')].data[1] # "B"
             /\ (pc[a] # "idle" /\ pc'[a] = "idle" /\ ~frame[a].blocking) =>
                   Len(wire') = 2]_vars

\* a blocking home has returned after a busy and then an idle poll
C18_ReturnedAfterIdlePoll ==
    /\ Len(wire) = 6
    /\ wire[1].data = <<"!", SP, "X", CR>>
    /\ wire[4].data = RespBusy
    /\ wire[6].data = RespIdle
    /\ pc["X"] = "idle"
    /\ ret["X"] = Return(<<>>)

\* axis X is in wait()
Waiting == pc["X"] \in {"wait", "polled", "sleeping"}

\* the latest access to the link is a status poll of X answered busy
BusyAnswered ==
    /\ Len(wire) = 2
    /\ wire[1].who = "X" /\ wire[1].data = <<"/", CR>>
    /\ wire[2].data[1] = "B"

\* C19: wait() returns only on a status poll whose answer does not start
\* with 'B'; a poll answered busy suspends the waiter and gives the
\* scheduler, hence the link, to the other callers; and when from some
\* point on no poll of the waiter is answered busy, every wait() returns,
\* whatever commands the other caller issues in between
C19_WaitReturnsIffIdle ==
    /\ [][/\ (Waiting /\ pc'["X"] = "idle") =>
                /\ ret'["X"] = Return(<<>>)
                /\ Len(wire') = 2
                /\ wire'[1].who = "X" /\ wire'[1].data = <<"/", CR>>
                /\ wire'[2].who = "X" /\ wire'[2].kind = "read"
                /\ wire'[2].data[1] # "B"
          /\ (pc["X"] = "polled" /\ BusyAnswered') =>
                pc'["X"] = "sleeping" /\ running' = "none"]_vars
    /\ (<>[]~BusyAnswered) => [](Waiting => <>(pc["X"] = "idle"))

\* the other caller has a command on the link while the waiter sleeps
\* between two polls
C19_LinkUsedWhileSleeping ==
    /\ pc["X"] = "sleeping"
    /\ pc["Y"] = "sent"
    /\ Len(wire) = 1
    /\ wire[1].who = "Y"

====
